---- MODULE Spec2Model ----
(***************************************************************************)
(* Model of apex-windows/src/music.rs: the Player backend that reads the   *)
(* operating system's current media session (metadata, playback status,    *)
(* position, name, progress) and its timer-driven event stream.            *)
(*                                                                         *)
(* The operating system is the environment: the current session may appear *)
(* and disappear, its properties may change and a native read may fail, at *)
(* any moment, also between two steps of one call.                         *)
(***************************************************************************)
EXTENDS Integers, Sequences, FiniteSets, TLC

VARIABLES
    os,          \* what the session manager and the current session report
    op,          \* the operation the caller is running ("idle" when none)
    pc,          \* the position inside that operation
    session1,    \* metadata(): outcome of current_session() at line 113
    session2,    \* metadata(): outcome of current_session() at line 65
    length,      \* metadata(): the local `length` of lines 115-123
    failedRead,  \* the first native read that failed in this call, or "none"
    meta,        \* result of metadata()
    pos,         \* result of position()
    stat,        \* result of playback_status()
    nm,          \* result of name()
    ret,         \* result of progress()
    started,     \* the sub-calls started by this call, in order
    changed,     \* the OS state changed while this call was in flight
    now,         \* stream: the clock, in milliseconds since stream()
    deadline,    \* stream: the instant the interval timer fires next
    genPc,       \* stream: position of the generator's loop (lines 87-90)
    consumer,    \* stream: "pulling" (inside poll_next) or "busy"
    ticks,       \* stream: completed timer.tick() calls
    emitted      \* stream: PlayerEvent::Timer items yielded

playerVars == <<op, pc, session1, session2, length, failedRead, meta, pos, stat,
                nm, ret, started, changed>>
streamVars == <<now, deadline, genPc, consumer, ticks, emitted>>
vars == <<os, playerVars, streamVars>>

---------------------------------------------------------------------------
(* Bounds *)

\* i64 / u64 are modelled as two's-complement words of Bits bits.
Bits == 4
\* The stream's clock stops advancing here.
MaxTime == 600

Modulus == 2 ^ Bits
MinI64 == -(2 ^ (Bits - 1))
MaxI64 == 2 ^ (Bits - 1) - 1

---------------------------------------------------------------------------
(* The native side *)

\* GlobalSystemMediaTransportControlsSessionPlaybackStatus, plus a value the
\* enum does not name (a WinRT enum is an open integer).
NativeStatuses ==
    {"Closed", "Opened", "Changing", "Stopped", "Playing", "Paused", "Unknown"}

\* TimeSpan.Duration values (i64) the timeline reports.
NativeEndTimes == {MinI64, -1, 0, MaxI64}
NativePositions == {-1, 0, MaxI64}

\* HSTRINGs: sequences of UTF-16 code units. "HI" is a high surrogate with
\* no low surrogate after it unless "LO" follows.
NativeTitles == {<<"t">>, <<"t", "HI">>}
NativeArtist == <<"HI", "LO">>
NativeAppId == <<"a", "p", "p">>

\* The native calls of the file that can fail while a session is present.
FaultPoints ==
    {"GetTimelineProperties", "EndTime", "Position", "GetPlaybackInfo",
     "PlaybackStatus", "TryGetMediaPropertiesAsync", "await", "Title",
     "Artist", "SourceAppUserModelId"}

\* GetCurrentSession() yields no session.
NoSession ==
    [present |-> FALSE, fault |-> "none", endTime |-> 0, position |-> 0,
     status |-> "Closed", title |-> <<>>]

Sessions ==
    [present : {TRUE}, fault : FaultPoints \cup {"none"},
     endTime : NativeEndTimes, position : NativePositions,
     status : NativeStatuses, title : NativeTitles]

OsStates == {NoSession} \cup Sessions

---------------------------------------------------------------------------
(* Results *)

Ok(v) == [kind |-> "Ok", val |-> v]
Err(e) == [kind |-> "Err", err |-> e]
NotRun == [kind |-> "NotRun"]

ErrWindows == "Windows"
ErrNoSession == "Couldn't get current session"
ErrMediaProps == "Couldn't get media properties"
ErrNative == "windows::core::Error"

\* String::from_utf16_lossy: a surrogate pair is one character, an unpaired
\* surrogate becomes U+FFFD, any other unit is itself.
RECURSIVE FromUtf16Lossy(_)
FromUtf16Lossy(h) ==
    IF h = <<>> THEN <<>>
    ELSE IF Head(h) = "HI" /\ Len(h) >= 2 /\ h[2] = "LO"
         THEN <<"PAIR">> \o FromUtf16Lossy(Tail(Tail(h)))
    ELSE IF Head(h) \in {"HI", "LO"}
         THEN <<"FFFD">> \o FromUtf16Lossy(Tail(h))
    ELSE <<Head(h)>> \o FromUtf16Lossy(Tail(h))

\* A saturating conversion in place of the cast: negative values become 0.
AsU64Saturating(x) == IF x < 0 THEN 0 ELSE x

\* `x as u64` for an i64 x.
AsU64(x) == x % Modulus

\* Player::current_session
CurrentSession(o) == IF o.present THEN Ok(o) ELSE Err(ErrNoSession)

\* The native read of a resolved session that fails first among `points`
\* (in call order), or "none".
RECURSIVE FirstFault(_, _)
FirstFault(o, points) ==
    IF points = <<>> THEN "none"
    ELSE IF o.fault = Head(points) THEN Head(points)
    ELSE FirstFault(o, Tail(points))

\* The length with a timeline failure treated like an absent session.
LengthOfLenient(o) ==
    IF ~o.present \/ FirstFault(o, <<"GetTimelineProperties", "EndTime">>) # "none"
    THEN Ok(0)
    ELSE Ok(AsU64(o.endTime))

\* metadata(), lines 113-123: the local `length`.
LengthOf(o) ==
    LET session == CurrentSession(o) IN
    IF session.kind = "Err" THEN Ok(0)
    ELSE IF FirstFault(o, <<"GetTimelineProperties", "EndTime">>) # "none"
         THEN Err(ErrWindows)
    ELSE Ok(AsU64(o.endTime))

\* media_properties() with an absent session yielding an empty property bag.
MediaPropertiesLenient(o) ==
    IF o.present /\ o.fault = "TryGetMediaPropertiesAsync" THEN Err(ErrMediaProps)
    ELSE IF o.present /\ o.fault = "await" THEN Err(ErrNative)
    ELSE Ok(o)

\* Player::media_properties
MediaProperties(o) ==
    LET session == CurrentSession(o) IN
    IF session.kind = "Err" THEN session
    ELSE IF o.fault = "TryGetMediaPropertiesAsync" THEN Err(ErrMediaProps)
    ELSE IF o.fault = "await" THEN Err(ErrNative)
    ELSE Ok(o)

\* metadata(), lines 125-129.
MetadataTail(o, len) ==
    LET props == MediaProperties(o) IN
    IF props.kind = "Err" THEN props
    ELSE IF FirstFault(props.val, <<"Title", "Artist">>) # "none"
         THEN Err(ErrNative)
    ELSE Ok([title |-> FromUtf16Lossy(props.val.title),
             artists |-> FromUtf16Lossy(NativeArtist),
             length |-> len])

\* One whole metadata() call against an OS state that does not change.
MetadataOf(o) ==
    LET len == LengthOf(o) IN
    IF len.kind = "Err" THEN len ELSE MetadataTail(o, len.val)

\* The status match without its Paused arm.
StatusMapNoPaused(s) == IF s = "Playing" THEN "Playing" ELSE "Stopped"

\* playback_status(), lines 147-155.
StatusMap(s) ==
    CASE s = "Playing" -> "Playing"
      [] s = "Paused" -> "Paused"
      [] OTHER -> "Stopped"

\* playback_status() with native failures absorbed like absence.
PlaybackStatusAbsorbing(o) ==
    IF ~o.present \/ FirstFault(o, <<"GetPlaybackInfo", "PlaybackStatus">>) # "none"
    THEN Ok("Stopped")
    ELSE Ok(StatusMap(o.status))

\* AsyncPlayer::playback_status
PlaybackStatusOf(o) ==
    LET session == CurrentSession(o) IN
    IF session.kind = "Err" THEN Ok("Stopped")
    ELSE IF FirstFault(o, <<"GetPlaybackInfo", "PlaybackStatus">>) # "none"
         THEN Err(ErrWindows)
    ELSE Ok(StatusMap(o.status))

\* AsyncPlayer::position
PositionOf(o) ==
    LET session == CurrentSession(o) IN
    IF session.kind = "Err" THEN Ok(0)
    ELSE IF FirstFault(o, <<"GetTimelineProperties", "Position">>) # "none"
         THEN Err(ErrWindows)
    ELSE Ok(o.position)

\* name() without the fallback of line 170: an unreadable identifier gives
\* the empty string.
NameOfNoFallback(o) ==
    IF ~o.present THEN <<"windows-api">>
    ELSE IF o.fault = "SourceAppUserModelId" THEN <<>>
    ELSE FromUtf16Lossy(NativeAppId)

\* AsyncPlayer::name (an HSTRING's to_string is the lossy conversion too)
NameOf(o) ==
    LET session == CurrentSession(o) IN
    IF session.kind = "Err" THEN <<"windows-api">>
    ELSE IF o.fault = "SourceAppUserModelId" THEN <<"windows-api">>
    ELSE FromUtf16Lossy(NativeAppId)

\* The bundle with the position field filled from the track length.
ProgressBundleLengthAsPosition(m, p, s) ==
    [metadata |-> m, position |-> m.length, status |-> s]

\* Player::progress: the struct literal of lines 75-79.
ProgressBundle(m, p, s) == [metadata |-> m, position |-> p, status |-> s]

\* progress() with the status queried before the position.
ProgressNextPcStatusFirst(sub, r) ==
    IF r.kind = "Err" THEN "done"
    ELSE CASE sub = "metadata" -> "playback_status"
           [] sub = "playback_status" -> "position"
           [] OTHER -> "done"

\* Player::progress: where control goes when sub-call `sub` returned `r`
\* (`?` returns at once on Err; the fields are evaluated in source order).
ProgressNextPc(sub, r) ==
    IF r.kind = "Err" THEN "done"
    ELSE CASE sub = "metadata" -> "position"
           [] sub = "position" -> "playback_status"
           [] OTHER -> "done"

---------------------------------------------------------------------------
(* The stream *)

\* Duration::from_millis(100)
Period == 100

\* The lateness of a wake-up and the consumer's processing times.
Delays == {30, 100, 250}

\* MissedTickBehavior::Burst: the next tick is due one period after the
\* last one was due, however late that one was taken.
NextTimeoutBurst(timeout, t) == timeout + Period

\* MissedTickBehavior::Skip: after a tick that was due at `timeout` and is
\* taken at `t`, the next one is due at the first multiple of the period
\* (counted from the start) after t.
NextTimeout(timeout, t) ==
    IF t > timeout
    THEN t + Period - ((t - timeout) % Period)
    ELSE timeout + Period

---------------------------------------------------------------------------
(* Initial state: a Player was constructed, stream() was called at time 0, *)
(* no call is running.                                                     *)

InitPlayer ==
    /\ op = "idle"
    /\ pc = "idle"
    /\ session1 = "none"
    /\ session2 = "none"
    /\ length = 0
    /\ failedRead = "none"
    /\ meta = NotRun
    /\ pos = NotRun
    /\ stat = NotRun
    /\ nm = NotRun
    /\ ret = NotRun
    /\ started = <<>>
    /\ changed = FALSE

InitStream ==
    /\ now = 0
    /\ deadline = 0
    /\ genPc = "tick"
    /\ consumer = "busy"
    /\ ticks = 0
    /\ emitted = 0

Init ==
    /\ os \in OsStates
    /\ InitPlayer
    /\ InitStream

---------------------------------------------------------------------------
(* The caller *)

Ops == {"metadata", "position", "playback_status", "name", "progress"}

\* The first sub-call an operation starts.
FirstSub(o) == IF o = "progress" THEN "metadata" ELSE o

\* The position at which sub-call `sub` begins.
SubPc(sub) == IF sub = "metadata" THEN "metadata_length" ELSE sub

\* The caller starts operation o.
Call(o) ==
    /\ pc = "idle"
    /\ op' = o
    /\ pc' = SubPc(FirstSub(o))
    /\ started' = <<FirstSub(o)>>
    /\ changed' = FALSE
    /\ UNCHANGED <<os, session1, session2, length, failedRead, meta, pos, stat,
                   nm, ret, streamVars>>

\* Sub-call `sub` returned r: a standalone call is over; inside progress()
\* the `?` of lines 76-78 either returns the error or lets the next field be
\* evaluated, and after the last field the bundle is built from the three
\* values (m, p, s are the sub-results as they stand after this step).
FinishSub(sub, r, m, p, s) ==
    IF op = "progress"
    THEN LET next == ProgressNextPc(sub, r) IN
         /\ pc' = SubPc(next)
         /\ started' = IF next = "done" THEN started ELSE Append(started, next)
         /\ ret' = IF r.kind = "Err" THEN r
                   ELSE IF next = "done"
                        THEN Ok(ProgressBundle(m.val, p.val, s.val))
                   ELSE ret
    ELSE /\ pc' = "done"
         /\ UNCHANGED <<started, ret>>

\* metadata(), lines 113-123: resolve the session, read the end time.
MetadataLength ==
    /\ pc = "metadata_length"
    /\ session1' = CurrentSession(os).kind
    /\ failedRead' = FirstFault(os, <<"GetTimelineProperties", "EndTime">>)
    /\ LET r == LengthOf(os) IN
       IF r.kind = "Ok"
       THEN /\ length' = r.val
            /\ pc' = "metadata_props"
            /\ UNCHANGED <<meta, ret, started>>
       ELSE /\ meta' = r
            /\ FinishSub("metadata", r, r, pos, stat)
            /\ UNCHANGED length
    /\ UNCHANGED <<os, op, session2, pos, stat, nm, changed, streamVars>>

\* metadata(), lines 125-129: resolve the session again inside
\* media_properties(), fetch the properties, read title and artist.
MetadataProps ==
    /\ pc = "metadata_props"
    /\ session2' = CurrentSession(os).kind
    /\ failedRead' =
          IF failedRead # "none" THEN failedRead
          ELSE FirstFault(os, <<"TryGetMediaPropertiesAsync", "await", "Title",
                                "Artist">>)
    /\ LET r == MetadataTail(os, length) IN
       /\ meta' = r
       /\ FinishSub("metadata", r, r, pos, stat)
    /\ UNCHANGED <<os, op, session1, length, pos, stat, nm, changed, streamVars>>

\* position(), lines 178-191.
Position ==
    /\ pc = "position"
    /\ failedRead' = FirstFault(os, <<"GetTimelineProperties", "Position">>)
    /\ LET r == PositionOf(os) IN
       /\ pos' = r
       /\ FinishSub("position", r, meta, r, stat)
    /\ UNCHANGED <<os, op, session1, session2, length, meta, stat, nm, changed,
                   streamVars>>

\* playback_status(), lines 134-157.
PlaybackStatus ==
    /\ pc = "playback_status"
    /\ failedRead' = FirstFault(os, <<"GetPlaybackInfo", "PlaybackStatus">>)
    /\ LET r == PlaybackStatusOf(os) IN
       /\ stat' = r
       /\ FinishSub("playback_status", r, meta, pos, r)
    /\ UNCHANGED <<os, op, session1, session2, length, meta, pos, nm, changed,
                   streamVars>>

\* name(), lines 160-175.
Name ==
    /\ pc = "name"
    /\ failedRead' = FirstFault(os, <<"SourceAppUserModelId">>)
    /\ nm' = [kind |-> "String", val |-> NameOf(os)]
    /\ pc' = "done"
    /\ UNCHANGED <<os, op, session1, session2, length, meta, pos, stat, ret,
                   started, changed, streamVars>>

\* The caller takes the result; the Player keeps nothing between calls.
Return ==
    /\ pc = "done"
    /\ op' = "idle"
    /\ pc' = "idle"
    /\ session1' = "none"
    /\ session2' = "none"
    /\ length' = 0
    /\ failedRead' = "none"
    /\ meta' = NotRun
    /\ pos' = NotRun
    /\ stat' = NotRun
    /\ nm' = NotRun
    /\ ret' = NotRun
    /\ started' = <<>>
    /\ changed' = FALSE
    /\ UNCHANGED <<os, streamVars>>

---------------------------------------------------------------------------
(* The operating system. It moves while no call runs and between the steps *)
(* of a running call; the state in which a call ended is the one its       *)
(* result is read in.                                                      *)

OsMoves(next) ==
    /\ pc # "done"
    /\ os' = next
    /\ changed' = (changed \/ pc # "idle")
    /\ UNCHANGED <<op, pc, session1, session2, length, failedRead, meta, pos,
                   stat, nm, ret, started, streamVars>>

\* An application becomes the current session.
SessionStarts == ~os.present /\ \E s \in Sessions : OsMoves(s)

\* The current session goes away.
SessionEnds == os.present /\ OsMoves(NoSession)

\* A native read starts or stops failing.
NativeFault ==
    /\ os.present
    /\ \E f \in (FaultPoints \cup {"none"}) \ {os.fault} :
          OsMoves([os EXCEPT !.fault = f])

\* The timeline moves: another end time or another position.
TimelineChange ==
    /\ os.present
    /\ \/ \E e \in NativeEndTimes \ {os.endTime} :
             OsMoves([os EXCEPT !.endTime = e])
       \/ \E p \in NativePositions \ {os.position} :
             OsMoves([os EXCEPT !.position = p])

\* The transport state changes.
PlaybackChange ==
    /\ os.present
    /\ \E s \in NativeStatuses \ {os.status} : OsMoves([os EXCEPT !.status = s])

\* Another track: another title.
TrackChange ==
    /\ os.present
    /\ \E t \in NativeTitles \ {os.title} : OsMoves([os EXCEPT !.title = t])

Next ==
    \/ \E o \in Ops : Call(o)
    \/ MetadataLength
    \/ MetadataProps
    \/ Position
    \/ PlaybackStatus
    \/ Name
    \/ Return
    \/ SessionStarts
    \/ SessionEnds
    \/ NativeFault
    \/ TimelineChange
    \/ PlaybackChange
    \/ TrackChange

Spec == Init /\ [][Next]_vars

---------------------------------------------------------------------------
(* The event stream, lines 83-92. The timer is created (and its first tick *)
(* is due) when stream() is called; the generator runs only while the      *)
(* consumer is pulling.                                                    *)

\* Time passes.
Advance ==
    /\ \E d \in Delays :
          /\ now + d <= MaxTime
          /\ now' = now + d
    /\ UNCHANGED <<os, playerVars, deadline, genPc, consumer, ticks, emitted>>

\* The consumer asks for the next item.
Pull ==
    /\ consumer = "busy"
    /\ consumer' = "pulling"
    /\ UNCHANGED <<os, playerVars, now, deadline, genPc, ticks, emitted>>

\* timer.tick().await completes (line 88): the deadline has passed and the
\* task is polled.
TimerTick ==
    /\ consumer = "pulling"
    /\ genPc = "tick"
    /\ now >= deadline
    /\ deadline' = NextTimeout(deadline, now)
    /\ ticks' = ticks + 1
    /\ genPc' = "yield"
    /\ UNCHANGED <<os, playerVars, now, consumer, emitted>>

\* yield PlayerEvent::Timer (line 89): the item goes to the consumer and the
\* generator is suspended until the next pull.
Yield ==
    /\ genPc = "yield"
    /\ emitted' = emitted + 1
    /\ genPc' = "tick"
    /\ consumer' = "busy"
    /\ UNCHANGED <<os, playerVars, now, deadline, ticks>>

NextStream ==
    \/ Advance
    \/ Pull
    \/ TimerTick
    \/ Yield

\* stream() is called on a fresh Player; no other operation runs.
InitStreamOnly == os = NoSession /\ InitPlayer /\ InitStream

SpecStream == InitStreamOnly /\ [][NextStream]_vars

---------------------------------------------------------------------------
(* Properties *)

\* A standalone call of operation o has returned. The OS is then in the
\* state the call's last step read.
Returned(o) == op = o /\ pc = "done"

SubCallOrder == <<"metadata", "position", "playback_status">>

IsPrefix(a, b) == Len(a) <= Len(b) /\ \A i \in 1..Len(a) : a[i] = b[i]

\* C1: with no current session playback_status() returns Ok(Stopped),
\* position() returns Ok(0) and name() returns "windows-api"; name() returns
\* "windows-api" too when the session is there but its source-app identifier
\* cannot be read.
AbsenceIsAbsorbed ==
    /\ Returned("playback_status") /\ ~os.present => stat = Ok("Stopped")
    /\ Returned("position") /\ ~os.present => pos = Ok(0)
    /\ Returned("name") /\ (~os.present \/ os.fault = "SourceAppUserModelId")
          => nm.val = <<"windows-api">>

NameFallsBackOnUnreadableId ==
    /\ Returned("name")
    /\ os.present
    /\ os.fault = "SourceAppUserModelId"
    /\ nm.val = <<"windows-api">>

\* C2 (as claimed): when no session is current during a whole metadata()
\* call, the call does not fail: it returns metadata with length 0.
MetadataSucceedsWithoutSession ==
    Returned("metadata") /\ ~changed /\ ~os.present
        => meta.kind = "Ok" /\ meta.val.length = 0

\* C3 (as claimed): playback_status() and position() never return an error.
StatusAndPositionNeverFail ==
    /\ Returned("playback_status") => stat.kind = "Ok"
    /\ Returned("position") => pos.kind = "Ok"

\* C3 (amended): playback_status() and position() absorb the absence of a
\* session, and return an error exactly when a session is present and one of
\* their native reads fails (playback info or status; timeline or position);
\* the error is the "Windows" one.
StatusAndPositionFailOnlyOnNativeFailure ==
    /\ Returned("playback_status") =>
          /\ stat.kind \in {"Ok", "Err"}
          /\ stat.kind = "Err" <=>
                os.present /\ os.fault \in {"GetPlaybackInfo", "PlaybackStatus"}
          /\ stat.kind = "Err" => stat.err = ErrWindows
    /\ Returned("position") =>
          /\ pos.kind \in {"Ok", "Err"}
          /\ pos.kind = "Err" <=>
                os.present /\ os.fault \in {"GetTimelineProperties", "Position"}
          /\ pos.kind = "Err" => pos.err = ErrWindows

StatusFailsOnNativeFailure ==
    /\ Returned("playback_status")
    /\ os.present
    /\ os.fault = "PlaybackStatus"
    /\ stat = Err(ErrWindows)

\* C4: progress() starts metadata(), position(), playback_status() in that
\* order; it fails exactly when a sub-call fails, with the error of the first
\* sub-call that failed, and starts no sub-call after that one.
ProgressOrderAndFirstError ==
    op = "progress" =>
        /\ IsPrefix(started, SubCallOrder)
        /\ pc = "done" =>
              LET results == <<meta, pos, stat>> IN
              /\ ret.kind \in {"Ok", "Err"}
              /\ ret.kind = "Err" <=> \E i \in 1..3 : results[i].kind = "Err"
              /\ ret.kind = "Ok" =>
                    /\ started = SubCallOrder
                    /\ \A i \in 1..3 : results[i].kind = "Ok"
              /\ \A i \in 1..3 :
                    results[i].kind = "Err" =>
                        /\ ret = results[i]
                        /\ Len(started) = i
                        /\ \A j \in 1..3 : j < i => results[j].kind = "Ok"
                        /\ \A j \in 1..3 : j > i => results[j] = NotRun

ProgressStopsAtFailedPosition ==
    /\ Returned("progress")
    /\ meta.kind = "Ok"
    /\ pos.kind = "Err"
    /\ stat = NotRun
    /\ started = <<"metadata", "position">>
    /\ ret = pos

\* C5: when the OS state did not change during a progress() call, the call
\* succeeds iff metadata(), position() and playback_status() all succeed in
\* that state, and its three fields are their three results.
ProgressEqualsIndependentCalls ==
    Returned("progress") /\ ~changed =>
        LET m == MetadataOf(os)
            p == PositionOf(os)
            s == PlaybackStatusOf(os)
            allOk == m.kind = "Ok" /\ p.kind = "Ok" /\ s.kind = "Ok"
        IN /\ ret.kind = "Ok" <=> allOk
           /\ ret.kind # "Ok" => ret.kind = "Err"
           /\ allOk =>
                 /\ ret.val.metadata = m.val
                 /\ ret.val.position = p.val
                 /\ ret.val.status = s.val

StableProgressSucceeds ==
    /\ Returned("progress")
    /\ ~changed
    /\ ret.kind = "Ok"
    /\ ret.val.position = MaxI64
    /\ ret.val.metadata.length = MaxI64
    /\ ret.val.status = "Paused"

\* C6: when a native read of metadata() fails on a present session (timeline
\* properties, end time, starting or awaiting the property fetch, title,
\* artist), metadata() returns an error, never a Metadata value.
MetadataFailsOnNativeFailure ==
    Returned("metadata") /\ failedRead # "none" => meta.kind = "Err"

MetadataFailedOnTimeline ==
    /\ Returned("metadata")
    /\ session1 = "Ok"
    /\ failedRead = "EndTime"
    /\ meta = Err(ErrWindows)

\* C8: with a session present and its playback info readable,
\* playback_status() returns Playing for native Playing, Paused for native
\* Paused and Stopped for every other native value.
StatusMappingIsTotal ==
    Returned("playback_status") /\ os.present
      /\ os.fault \notin {"GetPlaybackInfo", "PlaybackStatus"}
        => stat = Ok(IF os.status = "Playing" THEN "Playing"
                     ELSE IF os.status = "Paused" THEN "Paused"
                     ELSE "Stopped")

PausedIsReported ==
    /\ Returned("playback_status")
    /\ os.present
    /\ os.status = "Paused"
    /\ stat = Ok("Paused")

\* C9 (as claimed): the length metadata() returns equals the session's native
\* end time for every end time, negative ones included, and position()
\* returns the native position.
LengthEqualsNativeEndTime ==
    /\ Returned("metadata") /\ ~changed /\ meta.kind = "Ok"
          => meta.val.length = os.endTime
    /\ Returned("position") /\ os.present /\ pos.kind = "Ok"
          => pos.val = os.position

\* C9 (amended): the length equals the native end time reinterpreted as an
\* unsigned word (the end time itself when it is not negative, the end time
\* plus 2^width when it is), and position() returns the native position, sign
\* included.
LengthIsEndTimeAsUnsigned ==
    /\ Returned("metadata") /\ ~changed /\ meta.kind = "Ok"
          => meta.val.length =
                IF os.endTime >= 0 THEN os.endTime ELSE os.endTime + Modulus
    /\ Returned("position") /\ os.present /\ pos.kind = "Ok"
          => pos.val = os.position

NegativeEndTimeWraps ==
    /\ Returned("metadata")
    /\ ~changed
    /\ os.endTime = -1
    /\ meta.kind = "Ok"
    /\ meta.val.length = Modulus - 1

\* C10: metadata() resolves the session twice. It succeeds only if a session
\* is there at the second resolution; a length of 0 that stands for absence
\* is returned only when the session was absent at the first resolution and
\* present at the second; with the session present at the first and absent at
\* the second the call fails although the length was read.
MetadataNeedsSessionAtSecondResolution ==
    Returned("metadata") =>
        /\ meta.kind = "Ok" => session2 = "Ok"
        /\ meta.kind = "Ok" /\ session1 = "Err" => meta.val.length = 0
        /\ session1 = "Ok" /\ session2 = "Err" => meta = Err(ErrNoSession)

SessionLostBetweenResolutions ==
    /\ Returned("metadata")
    /\ session1 = "Ok"
    /\ session2 = "Err"
    /\ length = MaxI64
    /\ meta = Err(ErrNoSession)

\* C7: the stream never emits a backlog. Every completed tick yields one
\* event, the events never outnumber the tick boundaries that have passed
\* (the initial one counted), and after a tick, however late it was taken,
\* the timer is due at a boundary still to come.
NoBacklogBurst ==
    /\ [](/\ emitted <= ticks
          /\ ticks <= emitted + 1
          /\ (genPc = "yield") <=> (ticks = emitted + 1)
          /\ ticks <= (now \div Period) + 1)
    /\ [][ticks' # ticks =>
             /\ ticks' = ticks + 1
             /\ deadline' > now
             /\ deadline' % Period = 0]_vars

SlowConsumerGotOneEvent ==
    /\ genPc = "tick"
    /\ consumer = "busy"
    /\ emitted = 2
    /\ now = 280
    /\ deadline = 300

====
